---- MODULE Spec2Model ----
(***************************************************************************)
(* TaskFlow backend: the storage connection manager (class Database), the *)
(* process start-up (startServer), the identity verifier (AuthService) and *)
(* the dependency container as registerAuthModule fills it, the health     *)
(* handlers, the capability tokens, and the notes index generator.         *)
(*                                                                         *)
(* The mongodb driver (MongoClient) and the firebase-admin auth object are *)
(* collaborators outside the repository.  They are modelled at the calls   *)
(* the repository makes on them: client.connect() resolves or rejects,     *)
(* client.db() returns a new Db object, client.close() resolves,           *)
(* auth.verifyIdToken() resolves with claims or rejects.                   *)
(***************************************************************************)
EXTENDS Integers, FiniteSets, Sequences, TLC

(***************************************************************************)
(* Bounds of the model.                                                    *)
(***************************************************************************)
NumClients == 2          \* callers of the Database API besides startServer
MaxConnects == 3         \* connect() calls explored
MaxDisconnects == 2      \* disconnect() calls explored
NumReqs == 2             \* concurrent requests calling the AuthService
MaxResolves == 4         \* container resolutions explored
MaxRegs == 2             \* registerAuthModule() calls explored
MaxSymCalls == 2         \* Symbol.for() calls explored besides the two modules
MaxRuns == 3             \* runs of generate-readme-index.js explored

\* the caller that runs startServer; the other callers are 1..NumClients
Main == 0
Clients == 1..NumClients
Procs == {Main} \cup Clients
Reqs == 1..NumReqs

\* `private db: Db | null = null`: the value of an unset handle.
Null == 0

VARIABLES
    db,            \* Database.db: Null or the Db object stored by connect()
    clientOpen,    \* MongoClient: TRUE while the underlying connection is open
    dbCreated,     \* number of Db objects client.db() has created
    pc,            \* per caller: where it is suspended
    handshakes,    \* number of client.connect() calls issued
    hsFailed,      \* number of client.connect() calls that rejected
    okConnects,    \* number of connect() calls that completed successfully
    disconnects,   \* number of disconnect() calls issued
    firstDb,       \* the Db object stored by the first successful connect()
    exitedBy,      \* "none", or the place that called process.exit(1)
    listening,     \* TRUE once app.listen() was called
    last,          \* the most recent getDb() call: its context and outcome
    rpc,           \* per request: "idle" or suspended in auth.verifyIdToken
    rtok,          \* per request: the credential of its verifyToken call
    res,           \* per request: the outcome of its last AuthService call
    ruid,          \* per request: the uid of its getCurrentUser call
    revoked,       \* provider: the accepted credentials it has since revoked
    hung,          \* provider: the requests whose provider call never returns
    stalledDone,   \* TRUE once a call completed while another one was hung
    bindings,      \* container: per token its binding, or NoBinding
    cache,         \* container: per token the cached singleton, or Null
    created,       \* container: per token the number of constructor calls
    objects,       \* the instances constructed so far; an instance is its index
    got,           \* per token the instances that resolutions have returned
    lastRes,       \* the most recent resolution: its token and outcome
    resolves,      \* number of resolutions made
    regs,          \* number of registerAuthModule() calls made
    health,        \* the most recent response of a health handler
    symtab,        \* the global symbol registry: per key its symbol, or Null
    nsyms,         \* number of symbols created
    typesObj,      \* the TYPES object once types.js is evaluated
    authTypesObj,  \* the AUTH_TYPES object once its module is evaluated
    lastSym,       \* the most recent Symbol.for call: its key and result
    symCalls,      \* number of Symbol.for calls made by other code
    readme,        \* notes/README.md, a sequence of text pieces
    notes,         \* the `## ` headings of the note file under notes/
    authored,      \* TRUE once README.md and the note were written by hand
    runs,          \* number of updateReadme() runs
    afterFirst     \* README.md as the first run left it

dbVars == <<db, clientOpen, dbCreated, pc, handshakes, hsFailed, okConnects,
            disconnects, firstDb, exitedBy, listening, last>>
authVars == <<rpc, rtok, res, ruid, revoked, hung, stalledDone>>
regVars == <<bindings, cache, created, objects, got, lastRes, resolves, regs>>
healthVars == <<health>>
symVars == <<symtab, nsyms, typesObj, authTypesObj, lastSym, symCalls>>
docVars == <<readme, notes, authored, runs, afterFirst>>
vars == <<dbVars, authVars, regVars, healthVars, symVars, docVars>>

(***************************************************************************)
(* The lifecycle state of the manager.  The class keeps no state field:    *)
(* the state is what its fields and the driver's connection show.  Failed  *)
(* is the state in which connect()'s catch block has ended the process.    *)
(***************************************************************************)
Pending == {p \in Procs : pc[p] = "connect_await"}

StateOf(ex, d, open, pend) ==
    IF ex = "connect" THEN "Failed"
    ELSE IF d # Null /\ open THEN "Ready"
    ELSE IF d # Null THEN "Disconnected"
    ELSE IF pend # {} THEN "Connecting"
    ELSE "Uninitialized"

State == StateOf(exitedBy, db, clientOpen, Pending)

Running == exitedBy = "none"

(***************************************************************************)
(* Database.getDb                                                          *)
(***************************************************************************)
getDb_NoGuard(d) == [out |-> "ok", val |-> d]

getDb(d) ==
    IF d = Null
    THEN [out |-> "NotInitialized", val |-> Null]
    ELSE [out |-> "ok", val |-> d]

GetDb_WaitsForReady(p) ==
    /\ Running
    /\ pc[p] = "idle"
    /\ db # Null
    /\ last' = [op |-> "getDb", st |-> State, connected |-> okConnects > 0,
                disconnected |-> disconnects > 0, first |-> firstDb,
                out |-> "ok", val |-> db]
    /\ UNCHANGED <<db, clientOpen, dbCreated, pc, handshakes, hsFailed,
                   okConnects, disconnects, firstDb, exitedBy, listening>>

\* a getDb() that starts the handshake itself when no handle is stored
GetDb_LazyConnect(p) ==
    /\ Running
    /\ pc[p] = "idle"
    /\ last' = [op |-> "getDb", st |-> State, connected |-> okConnects > 0,
                disconnected |-> disconnects > 0, first |-> firstDb,
                out |-> getDb(db).out, val |-> getDb(db).val]
    /\ handshakes' = IF db = Null /\ handshakes < MaxConnects
                     THEN handshakes + 1 ELSE handshakes
    /\ UNCHANGED <<db, clientOpen, dbCreated, pc, hsFailed,
                   okConnects, disconnects, firstDb, exitedBy, listening>>

GetDb(p) ==
    /\ Running
    /\ pc[p] = "idle"
    /\ last' = [op |-> "getDb", st |-> State, connected |-> okConnects > 0,
                disconnected |-> disconnects > 0, first |-> firstDb,
                out |-> getDb(db).out, val |-> getDb(db).val]
    /\ UNCHANGED <<db, clientOpen, dbCreated, pc, handshakes, hsFailed,
                   okConnects, disconnects, firstDb, exitedBy, listening>>

(***************************************************************************)
(* Database.connect: the call up to `await this.client.connect()`.         *)
(***************************************************************************)
ConnectCall(p) ==
    /\ Running
    /\ handshakes < MaxConnects
    /\ handshakes' = handshakes + 1
    /\ pc' = [pc EXCEPT ![p] = "connect_await"]
    /\ UNCHANGED <<db, clientOpen, dbCreated, hsFailed, okConnects, disconnects,
                   firstDb, exitedBy, listening, last>>

\* where a caller continues when its connect() call returns
AfterConnect(p) == IF p = Main THEN "connected" ELSE "idle"

\* the handshake resolves: `this.db = this.client.db("taskflow")`
ConnectOk(p) ==
    /\ Running
    /\ pc[p] = "connect_await"
    /\ clientOpen' = TRUE
    /\ dbCreated' = dbCreated + 1
    /\ db' = dbCreated'
    /\ okConnects' = okConnects + 1
    /\ firstDb' = IF okConnects = 0 THEN db' ELSE firstDb
    /\ pc' = [pc EXCEPT ![p] = AfterConnect(p)]
    /\ UNCHANGED <<handshakes, hsFailed, disconnects, exitedBy, listening, last>>

\* the handshake rejects: the catch block logs and calls process.exit(1)
ConnectFail_Swallowed(p) ==
    /\ Running
    /\ pc[p] = "connect_await"
    /\ hsFailed' = hsFailed + 1
    /\ pc' = [pc EXCEPT ![p] = AfterConnect(p)]
    /\ UNCHANGED <<db, clientOpen, dbCreated, handshakes, okConnects,
                   disconnects, firstDb, exitedBy, listening, last>>

ConnectFail(p) ==
    /\ Running
    /\ pc[p] = "connect_await"
    /\ hsFailed' = hsFailed + 1
    /\ exitedBy' = "connect"
    /\ UNCHANGED <<db, clientOpen, dbCreated, pc, handshakes, okConnects,
                   disconnects, firstDb, listening, last>>

(***************************************************************************)
(* Database.disconnect: `await this.client.close()`.                       *)
(***************************************************************************)
DisconnectCall(p) ==
    /\ Running
    /\ pc[p] = "idle"
    /\ disconnects < MaxDisconnects
    /\ disconnects' = disconnects + 1
    /\ pc' = [pc EXCEPT ![p] = "disconnect_await"]
    /\ UNCHANGED <<db, clientOpen, dbCreated, handshakes, hsFailed, okConnects,
                   firstDb, exitedBy, listening, last>>

DisconnectDone_NoClose(p) ==
    /\ Running
    /\ pc[p] = "disconnect_await"
    /\ pc' = [pc EXCEPT ![p] = "idle"]
    /\ UNCHANGED <<db, clientOpen, dbCreated, handshakes, hsFailed, okConnects,
                   disconnects, firstDb, exitedBy, listening, last>>

DisconnectDone(p) ==
    /\ Running
    /\ pc[p] = "disconnect_await"
    /\ clientOpen' = FALSE
    /\ pc' = [pc EXCEPT ![p] = "idle"]
    /\ UNCHANGED <<db, dbCreated, handshakes, hsFailed, okConnects,
                   disconnects, firstDb, exitedBy, listening, last>>

(***************************************************************************)
(* startServer: await database.connect(); app.listen(PORT, ...)            *)
(***************************************************************************)
StartServer_NoAwait ==
    /\ pc[Main] = "start"
    /\ Running
    /\ handshakes < MaxConnects
    /\ handshakes' = handshakes + 1
    /\ listening' = TRUE
    /\ pc' = [pc EXCEPT ![Main] = "connect_await"]
    /\ UNCHANGED <<db, clientOpen, dbCreated, hsFailed, okConnects, disconnects,
                   firstDb, exitedBy, last>>

StartServer ==
    /\ pc[Main] = "start"
    /\ ConnectCall(Main)

Listen ==
    /\ Running
    /\ pc[Main] = "connected"
    /\ listening' = TRUE
    /\ pc' = [pc EXCEPT ![Main] = "done"]
    /\ UNCHANGED <<db, clientOpen, dbCreated, handshakes, hsFailed, okConnects,
                   disconnects, firstDb, exitedBy, last>>

\* app.listen throws: the catch block of startServer calls process.exit(1)
ListenThrows ==
    /\ Running
    /\ pc[Main] = "connected"
    /\ exitedBy' = "startServer"
    /\ UNCHANGED <<db, clientOpen, dbCreated, pc, handshakes, hsFailed,
                   okConnects, disconnects, firstDb, listening, last>>

ClientConnect(p) ==
    /\ pc[p] = "idle"
    /\ ConnectCall(p)

(***************************************************************************)
(* The identity provider (firebase-admin auth), at the calls made on it.   *)
(* A credential is an opaque string; the provider holds the claims of the  *)
(* credentials it accepts.  The claims carry a uid and an optional email.  *)
(***************************************************************************)
Credentials == {"", "tokA", "tokB", "expired"}
Accepted == {"tokA", "tokB"}
Undefined == "undefined"
ClaimsOf(tok) ==
    IF tok = "tokA" THEN [uid |-> "uidA", email |-> "a@x.io"]
    ELSE [uid |-> "uidB", email |-> Undefined]

\* the subjects the provider holds a profile for
Subjects == {"uidA", "ghost"}
Known == {"uidA"}
ProfileOf(uid) == [uid |-> uid, email |-> "a@x.io", displayName |-> Undefined]

NoResult == [op |-> "none", arg |-> "", out |-> "none", uid |-> "", email |-> "",
             displayName |-> "", cause |-> "none", calls |-> 0,
             revoked |-> FALSE]

\* a provider call suspends its own caller only: the continuation after the
\* `await` runs as soon as that call settles
CanComplete_Serialized(r) ==
    /\ r \notin hung
    /\ \A q \in Reqs : q \in hung => rpc[q] = "idle"

CanComplete(r) == r \notin hung

\* some other request is suspended in a provider call that never returns
Stalled(r) == \E q \in Reqs \ {r} : q \in hung /\ rpc[q] # "idle"

(***************************************************************************)
(* AuthService.verifyToken                                                 *)
(***************************************************************************)
\* `email: decodedToken.email`
EmailOrEmpty_Raw(e) == e

\* `decodedToken.email || ""`
EmailOrEmpty(e) == IF e = Undefined \/ e = "" THEN "" ELSE e

\* a verifier that answers from an earlier successful verification
VerifyCall_Cached(r, tok) ==
    /\ rpc[r] = "idle"
    /\ IF \E q \in Reqs : res[q].op = "verifyToken" /\ res[q].arg = tok
                               /\ res[q].out = "ok"
       THEN /\ res' = [res EXCEPT ![r] =
                   [NoResult EXCEPT !.op = "verifyToken", !.arg = tok,
                                    !.out = "ok", !.uid = ClaimsOf(tok).uid,
                                    !.email = EmailOrEmpty(ClaimsOf(tok).email),
                                    !.revoked = tok \in revoked]]
            /\ UNCHANGED <<rpc, rtok, hung>>
       ELSE /\ rpc' = [rpc EXCEPT ![r] = "verify_await"]
            /\ rtok' = [rtok EXCEPT ![r] = tok]
            /\ res' = [res EXCEPT ![r] =
                   [NoResult EXCEPT !.op = "verifyToken", !.arg = tok,
                                    !.out = "pending", !.calls = 1]]
            /\ \E h \in BOOLEAN : hung' = IF h THEN hung \cup {r} ELSE hung
    /\ UNCHANGED <<ruid, revoked, stalledDone>>

\* a verifier that keeps the credential in a field of the shared instance
VerifyCall_SharedField(r, tok) ==
    /\ rpc[r] = "idle"
    /\ rpc' = [rpc EXCEPT ![r] = "verify_await"]
    /\ rtok' = [q \in Reqs |-> IF rpc[q] = "verify_await" \/ q = r
                                THEN tok ELSE rtok[q]]
    /\ res' = [res EXCEPT ![r] =
                 [NoResult EXCEPT !.op = "verifyToken", !.arg = tok,
                                  !.out = "pending", !.calls = 1]]
    /\ \E h \in BOOLEAN : hung' = IF h THEN hung \cup {r} ELSE hung
    /\ UNCHANGED <<ruid, revoked, stalledDone>>

\* the body up to `await auth.verifyIdToken(token)`
VerifyCall(r, tok) ==
    /\ rpc[r] = "idle"
    /\ rpc' = [rpc EXCEPT ![r] = "verify_await"]
    /\ rtok' = [rtok EXCEPT ![r] = tok]
    /\ res' = [res EXCEPT ![r] =
                 [NoResult EXCEPT !.op = "verifyToken", !.arg = tok,
                                  !.out = "pending", !.calls = 1]]
    /\ \E h \in BOOLEAN : hung' = IF h THEN hung \cup {r} ELSE hung
    /\ UNCHANGED <<ruid, revoked, stalledDone>>

VerifyResolve_TokenAsUid(r) ==
    /\ rpc[r] = "verify_await"
    /\ CanComplete(r)
    /\ rtok[r] \in Accepted \ revoked
    /\ res' = [res EXCEPT ![r] =
                 [res[r] EXCEPT !.out = "ok",
                                !.uid = rtok[r],
                                !.email = EmailOrEmpty(ClaimsOf(rtok[r]).email),
                                !.revoked = rtok[r] \in revoked]]
    /\ rpc' = [rpc EXCEPT ![r] = "idle"]
    /\ rtok' = [rtok EXCEPT ![r] = ""]
    /\ stalledDone' = (stalledDone \/ Stalled(r))
    /\ UNCHANGED <<ruid, revoked, hung>>

\* the provider resolves with the decoded token
VerifyResolve(r) ==
    /\ rpc[r] = "verify_await"
    /\ CanComplete(r)
    /\ rtok[r] \in Accepted \ revoked
    /\ res' = [res EXCEPT ![r] =
                 [res[r] EXCEPT !.out = "ok",
                                !.uid = ClaimsOf(rtok[r]).uid,
                                !.email = EmailOrEmpty(ClaimsOf(rtok[r]).email),
                                !.revoked = rtok[r] \in revoked]]
    /\ rpc' = [rpc EXCEPT ![r] = "idle"]
    /\ rtok' = [rtok EXCEPT ![r] = ""]
    /\ stalledDone' = (stalledDone \/ Stalled(r))
    /\ UNCHANGED <<ruid, revoked, hung>>

\* a catch block that rethrows the provider's own error
VerifyReject_Rethrow(r, cause) ==
    /\ rpc[r] = "verify_await"
    /\ CanComplete(r)
    /\ cause = "rejected" => rtok[r] \notin Accepted \ revoked
    /\ res' = [res EXCEPT ![r] =
                 [res[r] EXCEPT !.out = "auth/argument-error", !.cause = cause]]
    /\ rpc' = [rpc EXCEPT ![r] = "idle"]
    /\ rtok' = [rtok EXCEPT ![r] = ""]
    /\ stalledDone' = (stalledDone \/ Stalled(r))
    /\ UNCHANGED <<ruid, revoked, hung>>

\* the provider rejects the credential, or cannot be reached: the catch block
\* throws Error("Invalid token") whatever the error was
VerifyReject(r, cause) ==
    /\ rpc[r] = "verify_await"
    /\ CanComplete(r)
    /\ cause = "rejected" => rtok[r] \notin Accepted \ revoked
    /\ res' = [res EXCEPT ![r] =
                 [res[r] EXCEPT !.out = "Invalid token", !.cause = cause]]
    /\ rpc' = [rpc EXCEPT ![r] = "idle"]
    /\ rtok' = [rtok EXCEPT ![r] = ""]
    /\ stalledDone' = (stalledDone \/ Stalled(r))
    /\ UNCHANGED <<ruid, revoked, hung>>

\* the provider revokes a credential it accepted (one credential is enough
\* to tell a verification before the revocation from one after it)
Revocable == {"tokA"}

Revoke(tok) ==
    /\ tok \in Revocable \ revoked
    /\ revoked' = revoked \cup {tok}
    /\ UNCHANGED <<rpc, rtok, res, ruid, hung, stalledDone>>

(***************************************************************************)
(* AuthService.getCurrentUser                                              *)
(***************************************************************************)
\* the body up to `await auth.getUser(uid)`
GetUserCall(r, uid) ==
    /\ rpc[r] = "idle"
    /\ rpc' = [rpc EXCEPT ![r] = "getuser_await"]
    /\ ruid' = [ruid EXCEPT ![r] = uid]
    /\ res' = [res EXCEPT ![r] =
                 [NoResult EXCEPT !.op = "getCurrentUser", !.arg = uid,
                                  !.out = "pending", !.calls = 1]]
    /\ \E h \in BOOLEAN : hung' = IF h THEN hung \cup {r} ELSE hung
    /\ UNCHANGED <<rtok, revoked, stalledDone>>

\* the provider resolves with the user record
GetUserResolve(r) ==
    /\ rpc[r] = "getuser_await"
    /\ CanComplete(r)
    /\ ruid[r] \in Known
    /\ res' = [res EXCEPT ![r] =
                 [res[r] EXCEPT !.out = "ok",
                                !.uid = ProfileOf(ruid[r]).uid,
                                !.email = ProfileOf(ruid[r]).email,
                                !.displayName = ProfileOf(ruid[r]).displayName]]
    /\ rpc' = [rpc EXCEPT ![r] = "idle"]
    /\ ruid' = [ruid EXCEPT ![r] = ""]
    /\ stalledDone' = (stalledDone \/ Stalled(r))
    /\ UNCHANGED <<rtok, revoked, hung>>

\* a catch block that returns nothing instead of throwing
GetUserReject_ReturnsNull(r, cause) ==
    /\ rpc[r] = "getuser_await"
    /\ CanComplete(r)
    /\ cause = "notfound" => ruid[r] \notin Known
    /\ res' = [res EXCEPT ![r] = [res[r] EXCEPT !.out = "ok", !.cause = cause]]
    /\ rpc' = [rpc EXCEPT ![r] = "idle"]
    /\ ruid' = [ruid EXCEPT ![r] = ""]
    /\ stalledDone' = (stalledDone \/ Stalled(r))
    /\ UNCHANGED <<rtok, revoked, hung>>

\* the provider reports no such subject, or cannot be reached: the catch block
\* throws Error("User not found") whatever the error was
GetUserReject(r, cause) ==
    /\ rpc[r] = "getuser_await"
    /\ CanComplete(r)
    /\ cause = "notfound" => ruid[r] \notin Known
    /\ res' = [res EXCEPT ![r] =
                 [res[r] EXCEPT !.out = "User not found", !.cause = cause]]
    /\ rpc' = [rpc EXCEPT ![r] = "idle"]
    /\ ruid' = [ruid EXCEPT ![r] = ""]
    /\ stalledDone' = (stalledDone \/ Stalled(r))
    /\ UNCHANGED <<rtok, revoked, hung>>

(***************************************************************************)
(* The dependency container.  Tokens are Symbol.for(name): a token is its  *)
(* name.  TYPES and AUTH_TYPES name the tokens; registerAuthModule binds   *)
(* two of them.  The container itself (bind, resolve) is the inversify     *)
(* Container, modelled by the contract of the Dependency Registry.         *)
(***************************************************************************)
SymbolFor(name) == name

TYPES ==
    [Database |-> SymbolFor("Database"),
     TaskRepository |-> SymbolFor("TaskRepository"),
     UserRepository |-> SymbolFor("UserRepository"),
     TaskService |-> SymbolFor("TaskService"),
     AuthService |-> SymbolFor("AuthService")]

AUTH_TYPES ==
    [AuthService |-> SymbolFor("AuthService"),
     AuthController |-> SymbolFor("AuthController")]

Tokens ==
    {TYPES[f] : f \in DOMAIN TYPES} \cup {AUTH_TYPES[f] : f \in DOMAIN AUTH_TYPES}

NoBinding == [impl |-> "none", scope |-> "none"]

\* Probe capabilities, bound by no module of the repository: two classes
\* that ask for each other, and one class bound in transient scope.
ProbeTokens == {"ProbeA", "ProbeB", "ProbeT"}
AllTokens == Tokens \cup ProbeTokens
ProbeDeps(cls) ==
    IF cls = "ProbeA" THEN <<"ProbeB">>
    ELSE IF cls = "ProbeB" THEN <<"ProbeA">>
    ELSE <<>>

\* a controller whose constructor parameter carries no @inject
DepsOf_None(cls) == ProbeDeps(cls)

\* the constructor parameters a class asks the container for:
\* `__param(0, inject(AUTH_TYPES.AuthService))` on AuthController
DepsOf(cls) ==
    IF cls = "AuthController" THEN <<AUTH_TYPES.AuthService>> ELSE ProbeDeps(cls)

\* bind(token).to(cls) in the given scope: registers or replaces the binding
bind(b, token, cls, scope) ==
    [b EXCEPT ![token] = [impl |-> cls, scope |-> scope]]

\* resolve(token) on the container state st = [cache, created, objects],
\* with the tokens whose resolution is in progress
RECURSIVE resolve(_, _, _)
\* a resolution that hands out an empty instance when it meets a cycle
resolve_CycleAsNull(token, st, inprog) ==
    IF bindings[token] = NoBinding
    THEN [out |-> "UnboundCapability", inst |-> Null, st |-> st]
    ELSE IF token \in inprog
    THEN [out |-> "ok", inst |-> Null, st |-> st]
    ELSE IF bindings[token].scope = "Singleton" /\ st.cache[token] # Null
    THEN [out |-> "ok", inst |-> st.cache[token], st |-> st]
    ELSE
        LET deps == DepsOf(bindings[token].impl)
            d == IF deps = <<>>
                 THEN [out |-> "ok", inst |-> Null, st |-> st]
                 ELSE resolve(deps[1], st, inprog \cup {token})
            id == Len(d.st.objects) + 1
        IN  IF d.out # "ok"
            THEN [out |-> d.out, inst |-> Null, st |-> d.st]
            ELSE [out |-> "ok", inst |-> id,
                  st |-> [cache |-> IF bindings[token].scope = "Singleton"
                                    THEN [d.st.cache EXCEPT ![token] = id]
                                    ELSE d.st.cache,
                          created |-> [d.st.created EXCEPT ![token] = @ + 1],
                          objects |-> Append(d.st.objects,
                                             [cls |-> bindings[token].impl,
                                              authService |-> d.inst])]]

\* a resolution that caches every instance, whatever the scope
resolve_CacheAll(token, st, inprog) ==
    IF bindings[token] = NoBinding
    THEN [out |-> "UnboundCapability", inst |-> Null, st |-> st]
    ELSE IF token \in inprog
    THEN [out |-> "CyclicDependency", inst |-> Null, st |-> st]
    ELSE IF bindings[token].scope \in {"Singleton", "Transient"} /\ st.cache[token] # Null
    THEN [out |-> "ok", inst |-> st.cache[token], st |-> st]
    ELSE
        LET deps == DepsOf(bindings[token].impl)
            d == IF deps = <<>>
                 THEN [out |-> "ok", inst |-> Null, st |-> st]
                 ELSE resolve(deps[1], st, inprog \cup {token})
            id == Len(d.st.objects) + 1
        IN  IF d.out # "ok"
            THEN [out |-> d.out, inst |-> Null, st |-> d.st]
            ELSE [out |-> "ok", inst |-> id,
                  st |-> [cache |-> IF bindings[token].scope \in {"Singleton", "Transient"}
                                    THEN [d.st.cache EXCEPT ![token] = id]
                                    ELSE d.st.cache,
                          created |-> [d.st.created EXCEPT ![token] = @ + 1],
                          objects |-> Append(d.st.objects,
                                             [cls |-> bindings[token].impl,
                                              authService |-> d.inst])]]

resolve(token, st, inprog) ==
    IF bindings[token] = NoBinding
    THEN [out |-> "UnboundCapability", inst |-> Null, st |-> st]
    ELSE IF token \in inprog
    THEN [out |-> "CyclicDependency", inst |-> Null, st |-> st]
    ELSE IF bindings[token].scope = "Singleton" /\ st.cache[token] # Null
    THEN [out |-> "ok", inst |-> st.cache[token], st |-> st]
    ELSE
        LET deps == DepsOf(bindings[token].impl)
            d == IF deps = <<>>
                 THEN [out |-> "ok", inst |-> Null, st |-> st]
                 ELSE resolve(deps[1], st, inprog \cup {token})
            id == Len(d.st.objects) + 1
        IN  IF d.out # "ok"
            THEN [out |-> d.out, inst |-> Null, st |-> d.st]
            ELSE [out |-> "ok", inst |-> id,
                  st |-> [cache |-> IF bindings[token].scope = "Singleton"
                                    THEN [d.st.cache EXCEPT ![token] = id]
                                    ELSE d.st.cache,
                          created |-> [d.st.created EXCEPT ![token] = @ + 1],
                          objects |-> Append(d.st.objects,
                                             [cls |-> bindings[token].impl,
                                              authService |-> d.inst])]]

Resolve(token) ==
    /\ resolves < MaxResolves
    /\ LET r == resolve(token, [cache |-> cache, created |-> created,
                                objects |-> objects], {})
       IN  /\ cache' = r.st.cache
           /\ created' = r.st.created
           /\ objects' = r.st.objects
           /\ got' = IF r.out = "ok"
                     THEN [got EXCEPT ![token] = @ \cup {r.inst}]
                     ELSE got
           /\ lastRes' = [token |-> token, bound |-> bindings[token] # NoBinding,
                          out |-> r.out, inst |-> r.inst]
    /\ resolves' = resolves + 1
    /\ UNCHANGED <<bindings, regs>>

\* the probe classes are bound: A and B as singletons, T transient
BindProbes ==
    /\ bindings["ProbeT"] = NoBinding
    /\ bindings' = bind(bind(bind(bindings, "ProbeA", "ProbeA", "Singleton"),
                             "ProbeB", "ProbeB", "Singleton"),
                        "ProbeT", "ProbeT", "Transient")
    /\ UNCHANGED <<cache, created, objects, got, lastRes, resolves, regs>>

(***************************************************************************)
(* registerAuthModule(container)                                           *)
(***************************************************************************)
\* the bindings without `.inSingletonScope()`
RegisterAuthModule_NoScope ==
    /\ regs < MaxRegs
    /\ regs' = regs + 1
    /\ bindings' = bind(bind(bindings, AUTH_TYPES.AuthService,
                             "AuthService", "Transient"),
                        AUTH_TYPES.AuthController, "AuthController", "Transient")
    /\ UNCHANGED <<cache, created, objects, got, lastRes, resolves>>

\* a registration that also binds the storage manager
RegisterAuthModule_BindsDatabase ==
    /\ regs < MaxRegs
    /\ regs' = regs + 1
    /\ bindings' = bind(bind(bind(bindings, AUTH_TYPES.AuthService,
                                  "AuthService", "Singleton"),
                             AUTH_TYPES.AuthController,
                             "AuthController", "Singleton"),
                        TYPES.Database, "Database", "Singleton")
    /\ UNCHANGED <<cache, created, objects, got, lastRes, resolves>>

RegisterAuthModule ==
    /\ regs < MaxRegs
    /\ regs' = regs + 1
    /\ bindings' = bind(bind(bindings, AUTH_TYPES.AuthService,
                             "AuthService", "Singleton"),
                        AUTH_TYPES.AuthController, "AuthController", "Singleton")
    /\ UNCHANGED <<cache, created, objects, got, lastRes, resolves>>

(***************************************************************************)
(* The health handlers: `app.get("/health", ...)` of the server and        *)
(* AuthController.health().                                                *)
(***************************************************************************)
NoHealth == [status |-> "none", service |-> "", message |-> ""]

\* `res.json({ status: "ok", message: "Server is running" })`
RouteBody == [status |-> "ok", service |-> "", message |-> "Server is running"]

\* `return { status: "ok", service: "auth" }`
AuthBody == [status |-> "ok", service |-> "auth", message |-> ""]

\* a route that reports the state of the storage connection
HealthRoute_ChecksState ==
    /\ Running
    /\ listening
    /\ health' = [health EXCEPT !["route"] =
                    [RouteBody EXCEPT !.status =
                        IF State = "Ready" THEN "ok" ELSE "down"]]
    /\ UNCHANGED <<dbVars, authVars, regVars>>

\* GET /health, served once the server listens
HealthRoute ==
    /\ Running
    /\ listening
    /\ health' = [health EXCEPT !["route"] = RouteBody]
    /\ UNCHANGED <<dbVars, authVars, regVars>>

AuthHealth ==
    /\ Running
    /\ health' = [health EXCEPT !["auth"] = AuthBody]
    /\ UNCHANGED <<dbVars, authVars, regVars>>

(***************************************************************************)
(* Capability tokens: `Symbol.for(key)` looks the key up in the global     *)
(* symbol registry and creates the symbol when the key is new.  A symbol   *)
(* is a positive number.  types.js and the auth module's types file each   *)
(* evaluate one object literal.                                            *)
(***************************************************************************)
Keys == Tokens \cup {"Other"}

\* `Symbol(key)`: a new symbol on every call, not entered in the registry
Symbol_plain(tab, n, key) == [tab |-> tab, n |-> n + 1, sym |-> n + 1]

Symbol_for(tab, n, key) ==
    IF tab[key] # Null
    THEN [tab |-> tab, n |-> n, sym |-> tab[key]]
    ELSE [tab |-> [tab EXCEPT ![key] = n + 1], n |-> n + 1, sym |-> n + 1]

\* the fields of the two object literals, in the order they are written
TypesFields ==
    <<"Database", "TaskRepository", "UserRepository", "TaskService", "AuthService">>
AuthTypesFields == <<"AuthService", "AuthController">>

\* evaluates `{ f: Symbol.for(keyOf[f]), ... }` for the fields from i on
RECURSIVE EvalObject(_, _, _, _)
EvalObject(fields, keyOf, i, st) ==
    IF i > Len(fields) THEN st
    ELSE LET r == Symbol_for(st.tab, st.n, keyOf[fields[i]])
         IN  EvalObject(fields, keyOf, i + 1,
                        [tab |-> r.tab, n |-> r.n,
                         obj |-> [st.obj EXCEPT ![fields[i]] = r.sym]])

\* types.js is evaluated (once: a module is evaluated on its first import)
LoadTypes ==
    /\ typesObj["Database"] = Null
    /\ LET r == EvalObject(TypesFields, TYPES, 1,
                           [tab |-> symtab, n |-> nsyms, obj |-> typesObj])
       IN  /\ symtab' = r.tab
           /\ nsyms' = r.n
           /\ typesObj' = r.obj
    /\ UNCHANGED <<authTypesObj, lastSym, symCalls>>

LoadAuthTypes ==
    /\ authTypesObj["AuthService"] = Null
    /\ LET r == EvalObject(AuthTypesFields, AUTH_TYPES, 1,
                           [tab |-> symtab, n |-> nsyms, obj |-> authTypesObj])
       IN  /\ symtab' = r.tab
           /\ nsyms' = r.n
           /\ authTypesObj' = r.obj
    /\ UNCHANGED <<typesObj, lastSym, symCalls>>

\* any other code calls Symbol.for(key)
SymbolForCall(key) ==
    /\ symCalls < MaxSymCalls
    /\ symCalls' = symCalls + 1
    /\ LET r == Symbol_for(symtab, nsyms, key)
       IN  /\ symtab' = r.tab
           /\ nsyms' = r.n
           /\ lastSym' = [key |-> key, sym |-> r.sym]
    /\ UNCHANGED <<typesObj, authTypesObj>>

(***************************************************************************)
(* scripts/generate-readme-index.js.  A file is a sequence of text pieces; *)
(* the two markers and the `$&` of a replacement string are pieces of      *)
(* their own.                                                              *)
(***************************************************************************)
START == "<!-- AUTO-GENERATED-INDEX:START -->"
END == "<!-- AUTO-GENERATED-INDEX:END -->"

\* the index line of a `## ` heading: `  - [${h}](./${file}#${anchor})`.
\* The heading text is copied as it is; the anchor keeps only word
\* characters.  A heading "amp" is one whose text contains `$&`.
HeadingLine(h) ==
    IF h = "amp" THEN <<"  - [see ", "$&", "](./a.md#see-)">>
    ELSE <<"  - [Code](./a.md#code)">>

RECURSIVE HeadingLines(_)
HeadingLines(hs) ==
    IF hs = <<>> THEN <<>>
    ELSE HeadingLine(Head(hs)) \o HeadingLines(Tail(hs))

\* generateIndex(): the title, then per note file its line and its headings
generateIndex(hs) ==
    <<"## Notes Index", "- **[a](./a.md)**">> \o HeadingLines(hs)

includes(content, piece) == \E i \in 1..Len(content) : content[i] = piece

\* the first match of /START[\s\S]*?END/: the leftmost START that an END
\* follows, up to the first END after it; <<0, 0>> when there is none
FirstMatch(content) ==
    LET starts == {i \in 1..Len(content) :
                      /\ content[i] = START
                      /\ \E j \in (i + 1)..Len(content) : content[j] = END}
    IN  IF starts = {} THEN <<0, 0>>
        ELSE LET i == CHOOSE x \in starts : \A y \in starts : x <= y
                 j == CHOOSE x \in (i + 1)..Len(content) :
                         /\ content[x] = END
                         /\ \A y \in (i + 1)..Len(content) :
                               content[y] = END => x <= y
             IN  <<i, j>>

\* a replacement string as String.prototype.replace reads it: `$&` stands
\* for the matched text
RECURSIVE Expand(_, _)
Expand(repl, matched) ==
    IF repl = <<>> THEN <<>>
    ELSE (IF Head(repl) = "$&" THEN matched ELSE <<Head(repl)>>)
            \o Expand(Tail(repl), matched)

\* content.replace(new RegExp(...), `${START}\n\n${index}\n\n${END}`)
replace(content, repl) ==
    LET m == FirstMatch(content)
    IN  IF m = <<0, 0>> THEN content
        ELSE SubSeq(content, 1, m[1] - 1)
                \o Expand(repl, SubSeq(content, m[1], m[2]))
                \o SubSeq(content, m[2] + 1, Len(content))

updateReadme(content, index) ==
    IF includes(content, START)
    THEN replace(content, <<START>> \o index \o <<END>>)
    ELSE <<START>> \o index \o <<END>> \o content

\* what the files hold before the script is run
Texts == {<<>>, <<"# Notes">>, <<"# Notes", "More text">>}
OldBlock == <<START, "## Notes Index", END>>
Readmes ==
    Texts \cup {pre \o OldBlock \o post :
                   pre \in {<<>>, <<"# Notes">>}, post \in {<<>>, <<"Footer">>}}
Headings == {"plain", "amp"}
NoteChoices ==
    {<<>>} \cup {<<h>> : h \in Headings} \cup {<<h, g>> : h, g \in Headings}

\* README.md and the note are written by hand, before the first run
Author(r, hs) ==
    /\ ~authored
    /\ runs = 0
    /\ authored' = TRUE
    /\ readme' = r
    /\ notes' = hs
    /\ UNCHANGED <<runs, afterFirst>>

\* one run of the script: updateReadme()
UpdateReadme ==
    /\ runs < MaxRuns
    /\ runs' = runs + 1
    /\ readme' = updateReadme(readme, generateIndex(notes))
    /\ afterFirst' = IF runs = 0 THEN readme' ELSE afterFirst
    /\ UNCHANGED <<notes, authored>>

InitDb ==

    /\ db = Null
    /\ clientOpen = FALSE
    /\ dbCreated = 0
    /\ pc = [p \in Procs |-> IF p = Main THEN "start" ELSE "idle"]
    /\ handshakes = 0
    /\ hsFailed = 0
    /\ okConnects = 0
    /\ disconnects = 0
    /\ firstDb = Null
    /\ exitedBy = "none"
    /\ listening = FALSE
    /\ last = [op |-> "none", st |-> "Uninitialized", connected |-> FALSE,
               disconnected |-> FALSE, first |-> Null,
               out |-> "none", val |-> Null]

InitAuth ==
    /\ rpc = [r \in Reqs |-> "idle"]
    /\ rtok = [r \in Reqs |-> ""]
    /\ res = [r \in Reqs |-> NoResult]
    /\ ruid = [r \in Reqs |-> ""]
    /\ revoked = {}
    /\ hung = {}
    /\ stalledDone = FALSE

\* `new Container()`: nothing bound, nothing constructed
InitReg ==
    /\ bindings = [t \in AllTokens |-> NoBinding]
    /\ cache = [t \in AllTokens |-> Null]
    /\ created = [t \in AllTokens |-> 0]
    /\ objects = <<>>
    /\ got = [t \in AllTokens |-> {}]
    /\ lastRes = [token |-> "none", bound |-> FALSE, out |-> "none", inst |-> Null]
    /\ resolves = 0
    /\ regs = 0

InitHealth == health = [h \in {"route", "auth"} |-> NoHealth]

\* no module evaluated yet: the global symbol registry is empty
InitSym ==
    /\ symtab = [k \in Keys |-> Null]
    /\ nsyms = 0
    /\ typesObj = [f \in DOMAIN TYPES |-> Null]
    /\ authTypesObj = [f \in DOMAIN AUTH_TYPES |-> Null]
    /\ lastSym = [key |-> "none", sym |-> Null]
    /\ symCalls = 0

\* no README.md yet (`fs.existsSync(README_PATH) ? ... : ""`), no headings
InitDoc ==
    /\ readme = <<>>
    /\ notes = <<>>
    /\ authored = FALSE
    /\ runs = 0
    /\ afterFirst = <<>>

Init == InitDb /\ InitAuth /\ InitReg /\ InitHealth /\ InitSym /\ InitDoc

Next ==
    \/ StartServer /\ UNCHANGED <<authVars, regVars, healthVars, symVars, docVars>>
    \/ Listen /\ UNCHANGED <<authVars, regVars, healthVars, symVars, docVars>>
    \/ ListenThrows /\ UNCHANGED <<authVars, regVars, healthVars, symVars, docVars>>
    \/ \E p \in Procs : ConnectOk(p) /\ UNCHANGED <<authVars, regVars, healthVars, symVars, docVars>>
    \/ \E p \in Procs : ConnectFail(p) /\ UNCHANGED <<authVars, regVars, healthVars, symVars, docVars>>
    \/ \E p \in Clients : ClientConnect(p) /\ UNCHANGED <<authVars, regVars, healthVars, symVars, docVars>>
    \/ \E p \in Clients : GetDb(p) /\ UNCHANGED <<authVars, regVars, healthVars, symVars, docVars>>
    \/ \E p \in Clients : DisconnectCall(p) /\ UNCHANGED <<authVars, regVars, healthVars, symVars, docVars>>
    \/ \E p \in Clients : DisconnectDone(p) /\ UNCHANGED <<authVars, regVars, healthVars, symVars, docVars>>
    \/ HealthRoute /\ UNCHANGED <<symVars, docVars>>
    \/ AuthHealth /\ UNCHANGED <<symVars, docVars>>

\* the Database manager and startServer
Spec == Init /\ [][Next]_vars

\* a suspended AuthService call of request r is resumed
Complete(r) ==
    \/ VerifyResolve(r)
    \/ \E c \in {"rejected", "unavailable"} : VerifyReject(r, c)
    \/ GetUserResolve(r)
    \/ \E c \in {"notfound", "unavailable"} : GetUserReject(r, c)

NextAuth ==
    \/ \E r \in Reqs, tok \in Credentials : VerifyCall(r, tok) /\ UNCHANGED <<dbVars, regVars, healthVars, symVars, docVars>>
    \/ \E r \in Reqs, uid \in Subjects : GetUserCall(r, uid) /\ UNCHANGED <<dbVars, regVars, healthVars, symVars, docVars>>
    \/ \E r \in Reqs : Complete(r) /\ UNCHANGED <<dbVars, regVars, healthVars, symVars, docVars>>
    \/ \E tok \in Revocable : Revoke(tok) /\ UNCHANGED <<dbVars, regVars, healthVars, symVars, docVars>>

\* the identity verifier, serving concurrent requests
SpecAuth == Init /\ [][NextAuth]_vars

\* the same, with the event loop resuming every call whose provider call settles
SpecAuthLive ==
    SpecAuth /\ \A r \in Reqs : WF_vars(Complete(r) /\ UNCHANGED <<dbVars, regVars, healthVars, symVars, docVars>>)

NextReg ==
    \/ RegisterAuthModule /\ UNCHANGED <<dbVars, authVars, healthVars, symVars, docVars>>
    \/ BindProbes /\ UNCHANGED <<dbVars, authVars, healthVars, symVars, docVars>>
    \/ \E t \in AllTokens : Resolve(t) /\ UNCHANGED <<dbVars, authVars, healthVars, symVars, docVars>>

\* the container: registration by registerAuthModule, and resolutions
SpecReg == Init /\ [][NextReg]_vars

NextSym ==
    \/ LoadTypes /\ UNCHANGED <<dbVars, authVars, regVars, healthVars, docVars>>
    \/ LoadAuthTypes /\ UNCHANGED <<dbVars, authVars, regVars, healthVars, docVars>>
    \/ \E k \in Keys : SymbolForCall(k)
                           /\ UNCHANGED <<dbVars, authVars, regVars, healthVars, docVars>>

\* the capability tokens: module evaluation and Symbol.for calls
SpecSym == Init /\ [][NextSym]_vars

NextDoc ==
    \/ \E r \in Readmes, hs \in NoteChoices :
          Author(r, hs) /\ UNCHANGED <<dbVars, authVars, regVars, healthVars, symVars>>
    \/ UpdateReadme /\ UNCHANGED <<dbVars, authVars, regVars, healthVars, symVars>>

\* the notes index generator, run repeatedly on unchanged notes
SpecDoc == Init /\ [][NextDoc]_vars

(***************************************************************************)
(* Properties of the Database manager and of startServer (under Spec).     *)
(***************************************************************************)

\* C1: a getDb() call made while no connect() has completed successfully
\* throws "Database not initialized" and hands out no handle.
ThmC1 ==
    (last.op = "getDb" /\ ~last.connected)
        => (last.out = "NotInitialized" /\ last.val = Null)

\* a getDb() call made before connect() was ever called
WitC1 ==
    /\ last.op = "getDb"
    /\ ~last.connected
    /\ last.st = "Uninitialized"
    /\ last.out = "NotInitialized"

\* C2 (as claimed): getDb() hands out a handle only in state Ready and throws
\* in every other state, Disconnected included.
CexC2 ==
    (last.op = "getDb" /\ last.st # "Ready") => last.out = "NotInitialized"

\* C3 (as claimed): once a connect() has completed, and as long as no
\* disconnect() was called, every getDb() returns the handle that connect()
\* stored.
CexC3 ==
    (last.op = "getDb" /\ last.connected /\ ~last.disconnected)
        => (last.out = "ok" /\ last.val = last.first)

\* C4 (as claimed): no step taken in state Ready starts another handshake.
CexC4 == [][State = "Ready" => handshakes' = handshakes]_vars

\* C5: a handshake failure ends the process in state Failed; from then on no
\* step is taken: no getDb() returns a handle and app.listen() is not called.
ThmC5 ==
    [][ /\ hsFailed' > hsFailed => (~Running' /\ State' = "Failed")
        /\ hsFailed > 0 =>
              /\ ~(listening' /\ ~listening)
              /\ ~(last' # last /\ last'.out = "ok")
              /\ State' = "Failed" ]_vars

\* startServer's own handshake failed before the server listened
WitC5 ==
    /\ hsFailed > 0
    /\ State = "Failed"
    /\ pc[Main] = "connect_await"
    /\ ~listening

\* C6: app.listen() is called only after startServer's connect() call has
\* returned with the handshake done and the handle stored.
ThmC6 ==
    /\ listening => pc[Main] = "done"
    /\ pc[Main] \in {"connected", "done"} => (db # Null /\ okConnects > 0)

WitC6 == listening /\ State = "Ready" /\ handshakes = okConnects

\* C7: in state Connecting a getDb() call is not made to wait (it can be taken
\* by every idle caller) and it throws "Database not initialized".
ThmC7 ==
    /\ (last.op = "getDb" /\ last.st = "Connecting")
          => (last.out = "NotInitialized" /\ last.val = Null)
    /\ State = "Connecting" =>
          \A p \in Clients : pc[p] = "idle" => ENABLED GetDb(p)

WitC7 ==
    /\ last.op = "getDb"
    /\ last.st = "Connecting"
    /\ last.out = "NotInitialized"
    /\ State = "Connecting"

\* C8 (as claimed): the only transitions are Uninitialized->Connecting,
\* Connecting->Ready, Connecting->Failed and Ready->Disconnected.
Transitions ==
    { <<"Uninitialized", "Connecting">>, <<"Connecting", "Ready">>,
      <<"Connecting", "Failed">>, <<"Ready", "Disconnected">> }

CexC8 == [][State' = State \/ <<State, State'>> \in Transitions]_vars

\* C9: when a disconnect() call completes the underlying connection is
\* released; completing in Ready leads to Disconnected, completing in
\* Disconnected stays there and starts no handshake.
ThmC9 ==
    [][ \A p \in Clients :
          (pc[p] = "disconnect_await" /\ pc'[p] = "idle") =>
              /\ ~clientOpen'
              /\ handshakes' = handshakes
              /\ State = "Ready" => State' = "Disconnected"
              /\ State = "Disconnected" => State' = "Disconnected" ]_vars

\* one connect(), then two disconnect() calls that both completed
WitC9 ==
    /\ handshakes = 1
    /\ okConnects = 1
    /\ disconnects >= 2
    /\ \A p \in Clients : pc[p] = "idle"
    /\ State = "Disconnected"

(***************************************************************************)
(* Properties of the AuthService (under SpecAuth).                         *)
(***************************************************************************)

\* C10 (as claimed): verifyToken("") fails with the invalid-credential error
\* and issues no call to the identity provider.
CexC10 ==
    \A r \in Reqs :
        (res[r].op = "verifyToken" /\ res[r].arg = "" /\ res[r].out # "pending")
            => (res[r].out = "Invalid token" /\ res[r].calls = 0)

\* C11: a verifyToken call the provider accepts returns a principal whose uid
\* is the uid of the provider's claims for the credential passed in.
ThmC11 ==
    \A r \in Reqs :
        (res[r].op = "verifyToken" /\ res[r].out # "pending") =>
            /\ res[r].cause = "none" => res[r].out = "ok"
            /\ res[r].out = "ok" =>
                  /\ res[r].arg \in Accepted
                  /\ res[r].uid = ClaimsOf(res[r].arg).uid

WitC11 ==
    \E r \in Reqs :
        /\ res[r].op = "verifyToken"
        /\ res[r].arg = "tokB"
        /\ res[r].out = "ok"
        /\ res[r].uid = "uidB"

\* C12: a verifyToken call the provider rejects fails with the one error
\* "Invalid token" and carries no principal.
ThmC12 ==
    \A r \in Reqs :
        (res[r].op = "verifyToken" /\ res[r].cause = "rejected") =>
            /\ res[r].out = "Invalid token"
            /\ res[r].uid = ""
            /\ res[r].email = ""

\* an expired credential rejected, and a revoked one rejected
WitC12 ==
    \E r, q \in Reqs :
        /\ res[r].op = "verifyToken" /\ res[r].arg = "expired"
        /\ res[r].cause = "rejected" /\ res[r].out = "Invalid token"
        /\ res[q].op = "verifyToken" /\ res[q].arg \in revoked
        /\ res[q].cause = "rejected" /\ res[q].out = "Invalid token"

\* C13 (as claimed): when the provider cannot be reached verifyToken fails
\* with an error other than the one a rejected credential gives.
CexC13 ==
    \A r \in Reqs :
        (res[r].op = "verifyToken" /\ res[r].cause = "unavailable")
            => res[r].out # "Invalid token"

ThmC15 ==
    \A r \in Reqs :
        (res[r].op = "verifyToken" /\ res[r].arg # "") =>
            /\ res[r].calls = 1
            /\ res[r].out = "ok" => ~res[r].revoked

\* a credential verified successfully, then revoked, then rejected
WitC15 ==
    \E r, q \in Reqs :
        /\ res[q].op = "verifyToken" /\ res[q].arg = "tokA" /\ res[q].out = "ok"
        /\ "tokA" \in revoked
        /\ res[r].op = "verifyToken" /\ res[r].arg = "tokA"
        /\ res[r].cause = "rejected" /\ res[r].out = "Invalid token"

\* C16: a step of one request changes nothing of another request, and the
\* credential a suspended call holds is the one it was called with.
Touched(r) ==
    \/ rpc'[r] # rpc[r]
    \/ res'[r] # res[r]
    \/ rtok'[r] # rtok[r]
    \/ ruid'[r] # ruid[r]

ThmC16 ==
    [][ /\ \A r, q \in Reqs : (r # q /\ Touched(r)) => ~Touched(q)
        /\ \A r \in Reqs :
              rpc'[r] = "verify_await" => rtok'[r] = res'[r].arg ]_vars

\* two verifyToken calls suspended at once, with different credentials
WitC16 ==
    \E r, q \in Reqs :
        /\ r # q
        /\ rpc[r] = "verify_await" /\ rtok[r] = "tokA"
        /\ rpc[q] = "verify_await" /\ rtok[q] = "expired"

\* C17: a suspended call whose own provider call returns is eventually
\* resumed, whatever other calls never return.
ThmC17 ==
    \A r \in Reqs : (rpc[r] # "idle" /\ r \notin hung) ~> (rpc[r] = "idle")

\* a call completed while another request was suspended for ever
WitC17 ==
    /\ stalledDone
    /\ \E q \in Reqs : q \in hung /\ rpc[q] = "verify_await"

\* C18 (as claimed): only startServer's failure path ends the process.
CexC18 == exitedBy \in {"none", "startServer"}

(***************************************************************************)
(* Properties of the container (under SpecReg).                            *)
(***************************************************************************)
SingletonTokens == {t \in Tokens : bindings[t].scope = "Singleton"}

\* C19: for every token bound in singleton scope, all resolutions return
\* one and the same instance and the constructor has run at most once.
ThmC19 ==
    /\ regs > 0 =>
          {AUTH_TYPES.AuthService, AUTH_TYPES.AuthController} \subseteq SingletonTokens
    /\ \A t \in SingletonTokens :
          /\ Cardinality(got[t]) <= 1
          /\ created[t] <= 1

\* the controller resolved twice, and the service too: one instance of each
WitC19 ==
    /\ resolves >= 4
    /\ got[AUTH_TYPES.AuthController] # {}
    /\ got[AUTH_TYPES.AuthService] # {}
    /\ created[AUTH_TYPES.AuthController] = 1
    /\ created[AUTH_TYPES.AuthService] = 1
    /\ lastRes.out = "ok"

\* C20: resolving a token that has no binding fails with UnboundCapability
\* and yields no instance; registerAuthModule binds none of Database,
\* TaskRepository, UserRepository and TaskService.
NeverBound ==
    {TYPES.Database, TYPES.TaskRepository, TYPES.UserRepository, TYPES.TaskService}

ThmC22 ==
    /\ (lastRes.token \in {"ProbeA", "ProbeB"} /\ lastRes.bound) =>
          (lastRes.out = "CyclicDependency" /\ lastRes.inst = Null)
    /\ \A t \in {"ProbeA", "ProbeB"} :
          created[t] = 0 /\ cache[t] = Null /\ got[t] = {}

\* the cycle was entered from ProbeA after the probes were bound
WitC22 ==
    /\ lastRes.token = "ProbeA"
    /\ lastRes.bound
    /\ lastRes.out = "CyclicDependency"

\* C23: a resolution of a token bound in transient scope runs the
\* constructor once more and returns an instance that no earlier resolution
\* of the token returned.
ThmC23 ==
    [][ \A t \in AllTokens :
          (/\ bindings[t].scope = "Transient"
           /\ resolves' = resolves + 1
           /\ lastRes'.token = t) =>
              /\ lastRes'.out = "ok"
              /\ lastRes'.inst \notin got[t]
              /\ got'[t] = got[t] \cup {lastRes'.inst}
              /\ created'[t] = created[t] + 1 ]_vars

\* three resolutions of ProbeT: three constructor calls, three instances
WitC23 ==
    /\ bindings["ProbeT"].scope = "Transient"
    /\ Cardinality(got["ProbeT"]) = 3
    /\ created["ProbeT"] = 3

(***************************************************************************)
(* Properties of the capability tokens (under SpecSym).                    *)
(***************************************************************************)

\* C24: Symbol.for gives one symbol per key and different symbols for
\* different keys: TYPES.AuthService and AUTH_TYPES.AuthService are the same
\* token, and two fields of TYPES / AUTH_TYPES hold the same token only if
\* they name the same capability.
ThmC24 ==
    /\ \A k1, k2 \in Keys :
          (symtab[k1] # Null /\ symtab[k1] = symtab[k2]) => k1 = k2
    /\ \A f \in DOMAIN TYPES :
          typesObj[f] # Null => typesObj[f] = symtab[TYPES[f]]
    /\ \A f \in DOMAIN AUTH_TYPES :
          authTypesObj[f] # Null => authTypesObj[f] = symtab[AUTH_TYPES[f]]
    /\ \A f, g \in DOMAIN TYPES :
          (typesObj[f] # Null /\ typesObj[f] = typesObj[g]) => f = g
    /\ \A f \in DOMAIN TYPES, g \in DOMAIN AUTH_TYPES :
          (typesObj[f] # Null /\ authTypesObj[g] # Null) =>
              (typesObj[f] = authTypesObj[g] <=> f = g)
    /\ lastSym.key # "none" => lastSym.sym = symtab[lastSym.key]

\* both modules evaluated, and a later Symbol.for("AuthService") made
WitC24 ==
    /\ typesObj["AuthService"] # Null
    /\ authTypesObj["AuthService"] = typesObj["AuthService"]
    /\ authTypesObj["AuthController"] # typesObj["AuthService"]
    /\ lastSym.key = "AuthService"
    /\ lastSym.sym = typesObj["AuthService"]

(***************************************************************************)
(* Further properties of the Database manager (under Spec).                *)
(***************************************************************************)

\* C25 (as claimed): over the whole run at most one handshake is started.
CexC25 == handshakes <= 1

\* C26: the constructor starts no handshake and stores no handle; a
\* handshake is started only by a step that enters connect(), the stored
\* handle changes only when a connect() call completes, and getDb() and
\* disconnect() steps change neither.
ThmC26 ==
    [][ /\ handshakes' # handshakes =>
              \E p \in Procs : pc[p] # "connect_await" /\ pc'[p] = "connect_await"
        /\ db' # db =>
              \E p \in Procs : pc[p] = "connect_await" /\ pc'[p] # "connect_await"
        /\ (\/ last' # last
            \/ disconnects' # disconnects
            \/ \E p \in Procs : pc[p] = "disconnect_await" /\ pc'[p] = "idle") =>
              (handshakes' = handshakes /\ db' = db /\ Pending' = Pending)
        /\ handshakes = 0 => (db = Null /\ Pending = {}) ]_vars

\* getDb() and two disconnect() calls were made around a single handshake
WitC26 ==
    /\ handshakes = 1
    /\ last.op = "getDb"
    /\ last.st = "Uninitialized"
    /\ disconnects = 2
    /\ db = firstDb
    /\ db # Null
    /\ \A p \in Procs : pc[p] \notin {"connect_await", "disconnect_await"}

\* C28: a health handler answers with status "ok" (AuthController.health
\* with service "auth") in whatever state it is called, and its step changes
\* nothing of the storage manager, the verifier or the container.
ThmC28 ==
    [][ health' # health =>
          /\ UNCHANGED <<dbVars, authVars, regVars>>
          /\ health'["route"] \in {NoHealth, RouteBody}
          /\ health'["auth"] \in {NoHealth, AuthBody}
          /\ RouteBody.status = "ok"
          /\ AuthBody.status = "ok" /\ AuthBody.service = "auth" ]_vars

\* both handlers answered "ok" while the storage connection is released
WitC28 ==
    /\ health["route"].status = "ok"
    /\ health["auth"].status = "ok"
    /\ health["auth"].service = "auth"
    /\ State = "Disconnected"

(***************************************************************************)
(* Further properties of the container (under SpecReg).                    *)
(***************************************************************************)

\* C27: a resolution of AuthController made after registerAuthModule
\* succeeds, and the controller it returns holds as authService the one
\* instance that resolutions of the AuthService token return.
ThmC27 ==
    /\ (lastRes.token = AUTH_TYPES.AuthController /\ lastRes.bound) =>
          lastRes.out = "ok"
    /\ \A c \in got[AUTH_TYPES.AuthController] :
          /\ objects[c].cls = "AuthController"
          /\ objects[c].authService # Null
          /\ objects[objects[c].authService].cls = "AuthService"
          /\ objects[c].authService = cache[AUTH_TYPES.AuthService]
          /\ got[AUTH_TYPES.AuthService] \subseteq {objects[c].authService}

\* the controller was resolved first, the service afterwards
WitC27 ==
    /\ got[AUTH_TYPES.AuthController] # {}
    /\ got[AUTH_TYPES.AuthService] # {}
    /\ \E c \in got[AUTH_TYPES.AuthController] :
          /\ objects[c].authService \in got[AUTH_TYPES.AuthService]
          /\ objects[c].authService < c

(***************************************************************************)
(* Further properties of the identity verifier (under SpecAuth).           *)
(***************************************************************************)

\* C29: the email of a Principal returned by verifyToken is a defined
\* string: the email of the provider's claims when they carry a non-empty
\* one, the empty string otherwise.
ThmC29 ==
    \A r \in Reqs :
        (res[r].op = "verifyToken" /\ res[r].out = "ok") =>
            /\ res[r].email # Undefined
            /\ res[r].email =
                  IF ClaimsOf(res[r].arg).email \in {Undefined, ""}
                  THEN "" ELSE ClaimsOf(res[r].arg).email

\* one Principal with the claims' email, one whose claims carry none
WitC29 ==
    \E r, q \in Reqs :
        /\ res[r].op = "verifyToken" /\ res[r].out = "ok"
        /\ res[r].arg = "tokA" /\ res[r].email = "a@x.io"
        /\ res[q].op = "verifyToken" /\ res[q].out = "ok"
        /\ res[q].arg = "tokB" /\ res[q].email = ""

(***************************************************************************)
(* Properties of the notes index generator (under SpecDoc).                *)
(***************************************************************************)
Count(content, piece) ==
    Cardinality({i \in 1..Len(content) : content[i] = piece})

\* C30 (as claimed): with the notes unchanged a second run leaves README.md
\* as the first run left it, and after a run README.md holds exactly one
\* START marker and one END marker.
CexC30 ==
    /\ runs >= 2 => readme = afterFirst
    /\ runs >= 1 => (Count(readme, START) = 1 /\ Count(readme, END) = 1)

====
